---- MODULE Spec2Model ----
(***************************************************************************)
(* A model of package moq (pkg/moq/moq.go).                                *)
(*                                                                         *)
(* Part I  models the generator: New, Mocker.Mock, Mocker.extractArgs,     *)
(*         Mocker.packageQualifier and the rendering of the document.      *)
(* Part II models the code that moqTemplate generates for one mock: the    *)
(*         nil check, the per-method mutex, the append to CallsTo and the  *)
(*         call of the configured function field.                          *)
(*                                                                         *)
(* Go strings are TLA+ strings (Len, SubSeq and \o act on them as on       *)
(* sequences of characters).  The iteration order of a Go map is not       *)
(* specified, so every `range` over a map is a choice among all orders.    *)
(***************************************************************************)
EXTENDS Integers, Sequences, FiniteSets, TLC

VARIABLES
    \* ---- Part I: the generator ----
    tree,       \* the parsed source directory (what parser.ParseDir returns)
    pkgHint,    \* the packageName argument of New
    mocker,     \* per run: the Mocker that New returned (pkgName, imports)
    calls,      \* per run: number of Mock calls made on the Mocker
    names,      \* per run: the name list of the latest Mock call
    sink,       \* per run: what the latest Mock call wrote to its io.Writer
    doc,        \* per run: the doc value the latest Mock call handed to Execute
    err,        \* per run: the outcome of the latest call
    request,    \* the name list every run of SpecRuns asks for
    \* ---- Part II: one generated mock at run time ----
    funcSet,    \* per method: whether <Method>Func is non-nil
    lock,       \* per method: the holder of CallsTo.lock<Method>, or NoFrame
    log,        \* per method: CallsTo.<Method>
    stack,      \* per goroutine: the stack of frames of mock methods
    status,     \* per goroutine: "running" or "panicked"
    issued,     \* number of calls made so far (also the next argument value)
    acquired,   \* history, per method: arguments in the order of Lock()
    appended    \* history, per method: number of calls past the append

genVars  == <<tree, pkgHint, request, mocker, calls, names, sink, doc, err>>
mockVars == <<funcSet, lock, log, stack, status, issued, acquired, appended>>
vars     == <<genVars, mockVars>>

(***************************************************************************)
(* Bounds.                                                                 *)
(***************************************************************************)
MaxNames     == 2   \* longest name list handed to Mock
MaxMockCalls == 2   \* Mock calls per Mocker
MaxCalls     == 4   \* calls of mock methods in one behaviour
MaxDepth     == 2   \* nesting of mock methods called from a function field

(***************************************************************************)
(* Helpers on sequences and strings.                                       *)
(***************************************************************************)
\* All the orders in which `range` may visit the keys S of a map.
Orderings(S) ==
    { s \in [1..Cardinality(S) -> S] :
        \A i, j \in 1..Cardinality(S) : i # j => s[i] # s[j] }

SeqRange(s) == { s[i] : i \in 1..Len(s) }

\* strings.Contains
Contains(s, sub) ==
    \E i \in 1..(Len(s) - Len(sub) + 1) : SubSeq(s, i, i + Len(sub) - 1) = sub

\* strings.ToUpper on one character
UpperCase ==
    [a |-> "A", b |-> "B", c |-> "C", d |-> "D", e |-> "E", f |-> "F",
     g |-> "G", h |-> "H", i |-> "I", j |-> "J", k |-> "K", l |-> "L",
     m |-> "M", n |-> "N", o |-> "O", p |-> "P", q |-> "Q", r |-> "R",
     s |-> "S", t |-> "T", u |-> "U", v |-> "V", w |-> "W", x |-> "X",
     y |-> "Y", z |-> "Z"]
ToUpper(c) == IF c \in DOMAIN UpperCase THEN UpperCase[c] ELSE c

RECURSIVE Join(_, _)
\* strings.Join
Join(parts, sep) ==
    IF Len(parts) = 0 THEN ""
    ELSE IF Len(parts) = 1 THEN parts[1]
    ELSE parts[1] \o sep \o Join(Tail(parts), sep)

(***************************************************************************)
(* The type-checker's objects: packages, types, variables, signatures.     *)
(***************************************************************************)
Pkg(name, path) == [name |-> name, path |-> path]
NoPkg == Pkg("", "")             \* predeclared types have no package
Typ(pkg, name, slice) == [pkg |-> pkg, name |-> name, slice |-> slice]
Var(name, type) == [name |-> name, type |-> type]
Sig(name, params, results, variadic) ==
    [name |-> name, params |-> params, results |-> results,
     variadic |-> variadic]

SrcPath  == "src"                \* m.src: conf.Check gives it as the path
SyncPkg  == Pkg("sync", "sync")
IoPkg    == Pkg("io", "io")
HttpPkg  == Pkg("http", "net/http")
OtherFoo == Pkg("foo", "other/foo")

String == Typ(NoPkg, "string", FALSE)
Error  == Typ(NoPkg, "error", FALSE)
Ints   == Typ(NoPkg, "int", TRUE)
Strs   == Typ(NoPkg, "string", TRUE)

\* The method sets of the interfaces the source trees declare, in a package
\* whose types.Package is home.
Methods(n, home) ==
    CASE n = "Greeter" ->
           << Sig("Greet", << Var("name", String) >>, << Var("", String) >>,
                  FALSE) >>
      [] n = "Locker" ->
           << Sig("Do", << Var("l", Typ(SyncPkg, "Locker", FALSE)),
                           Var("", Typ(home, "T", FALSE)) >>, << >>, FALSE) >>
      [] n = "Copier" ->
           << Sig("Copy", << Var("w", Typ(IoPkg, "Writer", FALSE)),
                             Var("h", Typ(HttpPkg, "Handler", FALSE)) >>,
                  << Var("", Error) >>, FALSE) >>
      [] n = "Logger" ->
           << Sig("Logf", << Var("format", String), Var("args", Ints) >>,
                  << Var("", Strs) >>, TRUE) >>
      [] n = "Summer" ->
           << Sig("Sum", << Var("xs", Ints) >>,
                  << Var("", Typ(home, "T", FALSE)) >>, TRUE) >>
      [] n = "Clash" ->
           << Sig("Use", << Var("x", Typ(OtherFoo, "T2", FALSE)) >>, << >>,
                  FALSE) >>
      [] OTHER -> << >>

\* types.IsInterface of a declared name: T is a struct.
IsInterface(n) == n # "T"

\* One parsed package: its name, whether conf.Check accepts it, its scope.
Package(name, ok, scope) == [name |-> name, ok |-> ok, scope |-> scope]

\* The source directories of the model: sets of parsed packages.
Trees ==
    { { Package("foo", TRUE, {"Greeter", "Locker", "Copier", "T"}) },
      { Package("foo", TRUE, {"Logger", "Summer", "Clash", "T"}) },
      { Package("foo", TRUE, {"Greeter", "Locker", "T"}),
        Package("main", TRUE, {"Greeter", "T"}) },
      { Package("foo", TRUE, {"Greeter", "Copier"}),
        Package("foo_test", FALSE, {"Greeter"}) },
      { Package("foo_test", TRUE, {"Greeter"}) } }

Hints == {"", "foo", "mocks"}

PkgNames(t) == { p.name : p \in t }
PkgNamed(t, n) == CHOOSE p \in t : p.name = n

\* The names a caller may ask for: those declared somewhere, and one that
\* is declared nowhere.
RequestNames(t) == UNION { p.scope : p \in t } \cup {"Missing"}
NameLists(t) ==
    UNION { [1..k -> RequestNames(t)] : k \in 0..MaxNames }

(***************************************************************************)
(* The Mocker and the descriptors of the document.                         *)
(***************************************************************************)
\* type Mocker: the fields Mock reads and writes (pkgs is `tree`).
Mocker(made, pkgName, imports) ==
    [made |-> made, pkgName |-> pkgName, imports |-> imports]
NoMocker == Mocker(FALSE, "", {})

\* type param, type method, type obj, type doc
Param(name, type, variadic) ==
    [Name |-> name, Type |-> type, Variadic |-> variadic]
Method(name, params, returns) ==
    [Name |-> name, Params |-> params, Returns |-> returns]
Obj(name, methods) == [InterfaceName |-> name, Methods |-> methods]
Doc(pkgName, objects, imports) ==
    [PackageName |-> pkgName, Objects |-> objects, Imports |-> imports]
NoDoc == Doc("", << >>, << >>)

\* var moqImports
moqImports == << "sync" >>

\* The outcomes of a call: nil, the errors, and a run-time panic.
Nil             == ""
ErrNoPackage    == "failed to determine package name"
ErrNoNames      == "must specify one interface"
ErrTypeCheck    == "type check failed"
ErrCannotFind   == "cannot find interface"
ErrNotInterface == "not an interface"
ErrWrite        == "write failed"
Panic           == "panic: slice bounds out of range"

(***************************************************************************)
(* Mocker.packageQualifier: the qualifier of pkg, and the Mocker after the *)
(* call (its imports may have grown).                                      *)
(***************************************************************************)
packageQualifier(m, pkg) ==
    IF m.pkgName = pkg.name
    THEN [qual |-> "", m |-> m]
    ELSE [qual |-> pkg.name,
          m |-> [m EXCEPT !.imports = @ \cup {pkg.path}]]

\* types.TypeString writes the qualifier q.qual, when it is not empty, and
\* a dot before the name of the type.
writeType(typ, q) ==
    [str |-> (IF typ.slice THEN "[]" ELSE "")
                \o (IF q.qual = "" THEN "" ELSE q.qual \o ".")
                \o typ.name,
     m |-> q.m]

\* types.TypeString(typ, m.packageQualifier): the qualifier is asked only
\* for a type that has a package.
TypeString(typ, m) ==
    writeType(typ, IF typ.pkg = NoPkg THEN [qual |-> "", m |-> m]
                   ELSE packageQualifier(m, typ.pkg))

\* fmt.Sprintf(nameFormat, n) for the formats "in%d" and "out%d"
Sprintf(nameFormat, n) ==
    SubSeq(nameFormat, 1, Len(nameFormat) - 2) \o ToString(n)

(***************************************************************************)
(* Mocker.extractArgs.  ii counts from 1 here (ii+1 in the source).  The   *)
(* expression typename[0:2] panics on a typename shorter than two bytes;   *)
(* && evaluates it only for the last entry of a variadic signature.        *)
(***************************************************************************)
\* line 138, given sig.Variadic() && ii == listLen-1 as `last`
IsVariadic(last, typename) == last /\ SubSeq(typename, 1, 2) = "[]"

RECURSIVE extractArgsFrom(_, _, _, _, _)
\* lines 132-144: one entry of the list, its type rendered as ts
extractArg(ts, sig, list, nameFormat, ii, params, last) ==
    IF last /\ Len(ts.str) < 2
    THEN [params |-> params, m |-> ts.m, panic |-> TRUE]
    ELSE extractArgsFrom(ts.m, sig, list, nameFormat,
             Append(params,
                 Param(IF list[ii].name = "" THEN Sprintf(nameFormat, ii)
                       ELSE list[ii].name,
                       ts.str, IsVariadic(last, ts.str))))

\* lines 130-146: the loop, from entry Len(params)+1 on
extractArgsFrom(m, sig, list, nameFormat, params) ==
    IF Len(params) = Len(list)
    THEN [params |-> params, m |-> m, panic |-> FALSE]
    ELSE extractArg(TypeString(list[Len(params) + 1].type, m), sig, list,
                    nameFormat, Len(params) + 1, params,
                    sig.variadic /\ Len(params) + 1 = Len(list))

extractArgs(m, sig, list, nameFormat) ==
    extractArgsFrom(m, sig, list, nameFormat, << >>)

(***************************************************************************)
(* Mocker.Mock, the loops of lines 72-108.                                 *)
(***************************************************************************)
RECURSIVE extractMethods(_, _, _)

\* line 104, then the next method
extractReturns(ps, rs, sigs, methods) ==
    IF rs.panic
    THEN [methods |-> methods, m |-> rs.m, panic |-> TRUE]
    ELSE extractMethods(rs.m, sigs,
             Append(methods, Method(sigs[Len(methods) + 1].name,
                                    ps.params, rs.params)))

\* lines 103-104
extractParams(ps, sig, sigs, methods) ==
    IF ps.panic
    THEN [methods |-> methods, m |-> ps.m, panic |-> TRUE]
    ELSE extractReturns(ps, extractArgs(ps.m, sig, sig.results, "out%d"),
                        sigs, methods)

\* lines 96-105: the methods of one interface, from Len(methods)+1 on
extractMethods(m, sigs, methods) ==
    IF Len(methods) = Len(sigs)
    THEN [methods |-> methods, m |-> m, panic |-> FALSE]
    ELSE extractParams(
             extractArgs(m, sigs[Len(methods) + 1],
                         sigs[Len(methods) + 1].params, "in%d"),
             sigs[Len(methods) + 1], sigs, methods)

RECURSIVE lookupNames(_, _, _, _, _)

\* line 106, then the next name
addObject(ms, pkg, name, i, objects) ==
    IF ms.panic
    THEN [err |-> Panic, m |-> ms.m, objects |-> objects]
    ELSE lookupNames(ms.m, pkg, name, i + 1,
                     Append(objects, Obj(name[i], ms.methods)))

\* lines 84-107: the requested names, looked up in one checked package
lookupNames(m, pkg, name, i, objects) ==
    IF i > Len(name)
    THEN [err |-> Nil, m |-> m, objects |-> objects]
    ELSE IF name[i] \notin pkg.scope
    THEN [err |-> ErrCannotFind, m |-> m, objects |-> objects]
    ELSE IF ~IsInterface(name[i])
    THEN [err |-> ErrNotInterface, m |-> m, objects |-> objects]
    ELSE addObject(
             extractMethods(m, Methods(name[i], Pkg(pkg.name, SrcPath)),
                            << >>),
             pkg, name, i, objects)

RECURSIVE checkPkgs(_, _, _, _, _, _)

\* after the names of one package: an error ends Mock
nextPkg(r, t, order, k, name) ==
    IF r.err # Nil THEN r
    ELSE checkPkgs(r.m, t, order, k + 1, name, r.objects)

\* lines 79-83: conf.Check of one package
checkPkg(m, t, order, k, name, objects, pkg) ==
    IF ~pkg.ok
    THEN [err |-> ErrTypeCheck, m |-> m, objects |-> objects]
    ELSE nextPkg(lookupNames(m, pkg, name, 1, objects), t, order, k, name)

\* lines 72-108: every parsed package, in the order the map yields them
checkPkgs(m, t, order, k, name, objects) ==
    IF k > Len(order)
    THEN [err |-> Nil, m |-> m, objects |-> objects]
    ELSE checkPkg(m, t, order, k, name, objects, PkgNamed(t, order[k]))

\* lines 64-108: Mock up to the filling of doc.Objects
collect(m, t, name, pkgOrder) ==
    IF Len(name) = 0
    THEN [err |-> ErrNoNames, m |-> m, objects |-> << >>]
    ELSE checkPkgs(m, t, pkgOrder, 1, name, << >>)

(***************************************************************************)
(* The methods of param and method that the template calls.                *)
(***************************************************************************)
\* func (p param) TypeString
ParamTypeString(p) ==
    IF p.Variadic THEN "..." \o SubSeq(p.Type, 3, Len(p.Type)) ELSE p.Type

\* func (p param) String
ParamString(p) == p.Name \o " " \o ParamTypeString(p)

\* func (p param) CallName
CallName(p) == IF p.Variadic THEN p.Name \o "..." ELSE p.Name

\* func (m *method) Arglist
Arglist(meth) ==
    Join([i \in 1..Len(meth.Params) |-> ParamString(meth.Params[i])], ", ")

\* func (m *method) ArgCallList
ArgCallList(meth) ==
    Join([i \in 1..Len(meth.Params) |-> CallName(meth.Params[i])], ", ")

\* lines 186-189
parenthesize(n, list) == IF n > 1 THEN "(" \o list \o ")" ELSE list

\* func (m *method) ReturnArglist
ReturnArglist(meth) ==
    parenthesize(Len(meth.Returns),
        Join([i \in 1..Len(meth.Returns) |->
                 ParamTypeString(meth.Returns[i])], ", "))

\* templateFuncs["Exported"]
Exported(s) ==
    IF s = "" THEN "" ELSE ToUpper(SubSeq(s, 1, 1)) \o SubSeq(s, 2, Len(s))

(***************************************************************************)
(* moqTemplate, lines 229-304, as the pieces Execute writes in order: the  *)
(* package clause, one piece per import line, one piece per mock.          *)
(***************************************************************************)
Piece(kind, text) == [kind |-> kind, text |-> text]

\* lines 263-302: the text of one method, from the lists the template asks
\* the method for
methodText(iface, name, arglist, returns, fields, callList) ==
    name \o "Func func(" \o arglist \o ") " \o returns
        \o "; CallsTo." \o name \o " []struct{" \o fields \o "}"
        \o "; func (mock *" \o iface \o "Mock) " \o name
        \o "(" \o arglist \o ") " \o returns \o " { "
        \o (IF returns # "" THEN "return " ELSE "")
        \o "mock." \o name \o "Func(" \o callList \o ") }"

RenderMethod(o, meth) ==
    methodText(o.InterfaceName, meth.Name, Arglist(meth), ReturnArglist(meth),
        Join([i \in 1..Len(meth.Params) |->
                 Exported(meth.Params[i].Name) \o " " \o meth.Params[i].Type],
             "; "),
        ArgCallList(meth))

\* lines 239-304: one mock
RenderObj(o) ==
    "type " \o o.InterfaceName \o "Mock struct { "
        \o Join([i \in 1..Len(o.Methods) |-> RenderMethod(o, o.Methods[i])],
                " ")
        \o " }"

\* lines 229-304
Render(d) ==
    << Piece("package", d.PackageName) >>
        \o [i \in 1..Len(d.Imports) |-> Piece("import", d.Imports[i])]
        \o [i \in 1..Len(d.Objects) |-> Piece("mock", RenderObj(d.Objects[i]))]

\* An io.Writer: it accepts `accepts` writes and fails the next one, or
\* never fails.
Writer(fails, accepts) == [fails |-> fails, accepts |-> accepts]
MaxAccepted == 1
Writers ==
    {Writer(FALSE, 0)} \cup { Writer(TRUE, k) : k \in 0..MaxAccepted }

\* text/template writes piece by piece and stops at the first write that
\* fails; what was written before stays written.
writePieces(w, pieces) ==
    IF w.fails /\ w.accepts < Len(pieces)
    THEN [err |-> ErrWrite, written |-> SubSeq(pieces, 1, w.accepts)]
    ELSE [err |-> Nil, written |-> pieces]

\* m.tmpl.Execute(w, doc)
Execute(w, d) == writePieces(w, Render(d))

(***************************************************************************)
(* Part I, the actions.                                                    *)
(***************************************************************************)
Runs == {"run1", "run2"}

\* lines 37-45: the first package name, in the order the map yields them,
\* that does not contain "_test"; "" when there is none.
RECURSIVE firstNonTest(_, _)
firstNonTest(order, i) ==
    IF i > Len(order) THEN ""
    ELSE IF Contains(order[i], "_test") THEN firstNonTest(order, i + 1)
    ELSE order[i]

\* lines 46-60: the Mocker of run r, or the error
newMocker(r, packageName) ==
    IF Len(packageName) = 0
    THEN /\ err' = [err EXCEPT ![r] = ErrNoPackage]
         /\ UNCHANGED mocker
    ELSE /\ mocker' = [mocker EXCEPT ![r] = Mocker(TRUE, packageName, {})]
         /\ UNCHANGED err

\* func New(src, packageName)
New(r) ==
    /\ ~mocker[r].made
    /\ err[r] = Nil
    /\ \E order \in Orderings(PkgNames(tree)) :
         newMocker(r, IF Len(pkgHint) = 0 THEN firstNonTest(order, 1)
                      ELSE pkgHint)
    /\ UNCHANGED <<tree, pkgHint, request, calls, names, sink, doc, mockVars>>

\* lines 112-116: the document d went to Execute, which returned x
executed(r, d, x) ==
    /\ err' = [err EXCEPT ![r] = x.err]
    /\ doc' = [doc EXCEPT ![r] = d]
    /\ sink' = [sink EXCEPT ![r] = x.written]

\* lines 109-116, after the loops returned c
finish(r, w, c) ==
    /\ mocker' = [mocker EXCEPT ![r] = c.m]
    /\ IF c.err # Nil
       THEN /\ err' = [err EXCEPT ![r] = c.err]
            /\ doc' = [doc EXCEPT ![r] = NoDoc]
            /\ sink' = [sink EXCEPT ![r] = << >>]
       ELSE \E impOrder \in Orderings(c.m.imports) :
              executed(r, Doc(c.m.pkgName, c.objects, moqImports \o impOrder),
                  Execute(w, Doc(c.m.pkgName, c.objects,
                                 moqImports \o impOrder)))

\* func (m *Mocker) Mock(w, name...), on the Mocker of run r
MockCall(r, w, name) ==
    /\ mocker[r].made
    /\ calls[r] < MaxMockCalls
    /\ err[r] # Panic
    /\ calls' = [calls EXCEPT ![r] = @ + 1]
    /\ names' = [names EXCEPT ![r] = name]
    /\ \E pkgOrder \in Orderings(PkgNames(tree)) :
         finish(r, w, collect(mocker[r], tree, name, pkgOrder))
    /\ UNCHANGED <<tree, pkgHint, request, mockVars>>

\* A Mock call with any name list and any writer.
Mock(r) == \E w \in Writers, name \in NameLists(tree) : MockCall(r, w, name)

\* The one Mock call of a run of the tool: the requested names, written to
\* a writer that does not fail.
Generate(r) == calls[r] = 0 /\ MockCall(r, Writer(FALSE, 0), request)

MockIdle ==
    /\ funcSet = << >> /\ lock = << >> /\ log = << >> /\ stack = << >>
    /\ status = << >> /\ issued = 0 /\ acquired = << >> /\ appended = << >>

GenInit ==
    /\ tree \in Trees
    /\ pkgHint \in Hints
    /\ mocker = [r \in Runs |-> NoMocker]
    /\ calls = [r \in Runs |-> 0]
    /\ names = [r \in Runs |-> << >>]
    /\ sink = [r \in Runs |-> << >>]
    /\ doc = [r \in Runs |-> NoDoc]
    /\ err = [r \in Runs |-> Nil]

\* One Mocker, used for several Mock calls.
Init == GenInit /\ request = << >> /\ MockIdle
Next == New("run1") \/ Mock("run1")
Spec == Init /\ [][Next]_vars

\* Two runs of the tool on the same directory, with the same package name
\* and the same requested names.
RunsInit == GenInit /\ request \in NameLists(tree) /\ MockIdle
RunsNext == \E r \in Runs : New(r) \/ Generate(r)
SpecRuns == RunsInit /\ [][RunsNext]_vars

(***************************************************************************)
(* Part I, the claims about the generator.                                 *)
(***************************************************************************)
Returned(r) == calls[r] > 0 /\ err[r] # Panic
Succeeded(r) == calls[r] > 0 /\ err[r] = Nil

\* The import block of what run r wrote.
ImportBlock(r) == SelectSeq(sink[r], LAMBDA piece : piece.kind = "import")

\* The interface names of the mocks in the document of run r.
ObjectNames(r) ==
    [i \in 1..Len(doc[r].Objects) |-> doc[r].Objects[i].InterfaceName]

\* C1 (determinism): two runs of New followed by Mock on the same source
\* directory, with the same package name argument and the same requested
\* names, write the same output.
C1_SameOutput ==
    \A r1, r2 \in Runs :
        calls[r1] = 1 /\ calls[r2] = 1 => sink[r1] = sink[r2]

\* C4 (output order and uniqueness): after a successful Mock the mocks of
\* the document are the requested names, in the order requested, one mock
\* per name.
C4_ObjectsAreRequest ==
    \A r \in Runs : Succeeded(r) => ObjectNames(r) = names[r]

\* C5 (import uniqueness): no import path occurs twice in the import block
\* of a document that was written.
C5_ImportsOnce ==
    \A r \in Runs :
        Succeeded(r) =>
            \A i, j \in 1..Len(ImportBlock(r)) :
                i # j => ImportBlock(r)[i] # ImportBlock(r)[j]

\* What Mock can write for the names `name` on a Mocker fresh from New.
FreshOutputs(pkgName, name) ==
    { Render(Doc(pkgName, x[1].objects, moqImports \o x[2])) :
        x \in { y \in { <<collect(Mocker(TRUE, pkgName, {}), tree, name, o),
                          io>> :
                        o \in Orderings(PkgNames(tree)),
                        io \in UNION { Orderings(S) :
                                         S \in SUBSET {"sync", "io", "net/http",
                                                       "other/foo", SrcPath} } } :
                  y[1].err = Nil /\ SeqRange(y[2]) = y[1].m.imports } }

\* C6 (no state persists across invocations): what a successful Mock call
\* wrote is something the same call writes on a Mocker fresh from New.
C6_NoCarryOver ==
    \A r \in Runs :
        Succeeded(r) => sink[r] \in FreshOutputs(mocker[r].pkgName, names[r])

\* C7 (all-or-nothing output): a Mock call that returned nil wrote the
\* whole document, and one that returned an error wrote nothing.
C7_AllOrNothing ==
    \A r \in Runs :
        Returned(r) =>
            IF err[r] = Nil THEN sink[r] = Render(doc[r])
            ELSE sink[r] = << >>

\* The declared signature of method k of the mock o.
SigOf(o, k) == Methods(o.InterfaceName, NoPkg)[k]

\* C8 (variadic flag placement): in the document of a successful Mock,
\* Variadic is set only on the last parameter of a variadic method, and
\* only when its type starts with "[]"; it is set on no return value.
C8_VariadicOnlyLastParam ==
    \A r \in Runs :
        Succeeded(r) =>
            \A oi \in 1..Len(doc[r].Objects) :
                \A k \in 1..Len(doc[r].Objects[oi].Methods) :
                    LET meth == doc[r].Objects[oi].Methods[k]
                        sig  == SigOf(doc[r].Objects[oi], k)
                    IN  /\ \A i \in 1..Len(meth.Params) :
                              meth.Params[i].Variadic =>
                                  /\ sig.variadic
                                  /\ i = Len(meth.Params)
                                  /\ SubSeq(meth.Params[i].Type, 1, 2) = "[]"
                        /\ \A i \in 1..Len(meth.Returns) :
                              ~meth.Returns[i].Variadic

\* The rendering the claim asks for: no qualifier for a type of the
\* target package (the package of the source directory that has the
\* Mocker's package name), the short name of its package otherwise.
QualifiedAs(typ, target) ==
    (IF typ.slice THEN "[]" ELSE "")
        \o (IF typ.pkg = NoPkg \/ typ.pkg = target THEN ""
            ELSE typ.pkg.name \o ".")
        \o typ.name

\* Entry i of a declared list against entry i of the extracted list.
QualifiedRight(r, declared, extracted, target) ==
    \A i \in 1..Len(extracted) :
        /\ extracted[i].Type = QualifiedAs(declared[i].type, target)
        /\ declared[i].type.pkg \notin {NoPkg, target} =>
               declared[i].type.pkg.path \in SeqRange(doc[r].Imports)

\* C10 (package qualifier): in the document of a successful Mock every
\* type of the target package is unqualified, and every type of another
\* package carries that package's short name and has its path imported.
C10_QualifierByPackage ==
    \A r \in Runs :
        Succeeded(r) =>
            \A oi \in 1..Len(doc[r].Objects) :
                \A k \in 1..Len(doc[r].Objects[oi].Methods) :
                    \E home \in PkgNames(tree) :
                        LET sig == Methods(doc[r].Objects[oi].InterfaceName,
                                           Pkg(home, SrcPath))[k]
                            meth == doc[r].Objects[oi].Methods[k]
                            target == Pkg(mocker[r].pkgName, SrcPath)
                        IN  /\ QualifiedRight(r, sig.params, meth.Params,
                                              target)
                            /\ QualifiedRight(r, sig.results, meth.Returns,
                                              target)

(***************************************************************************)
(* Part II: one generated mock at run time (moqTemplate, lines 261-302).   *)
(*                                                                         *)
(* The mock has the methods MockMethods.  Goroutines call them; a function *)
(* field, while it runs, may call a method of the mock again, may return,  *)
(* or may stay where it is for ever.  Every call gets the next argument    *)
(* value, so that the entries of the logs tell the calls apart.            *)
(***************************************************************************)
MockMethods == {"Get", "Put"}
Goroutines  == {"g1", "g2"}

NoFrame == <<"", 0>>            \* the mutex is not held
Frame(meth, arg, pc) == [meth |-> meth, arg |-> arg, pc |-> pc, seen |-> << >>]

\* The statements of a generated method, in the order of the template:
\* line 283 (the nil check), 286 (Lock), 287 (append reads the slice, then
\* the assignment writes it), 296 (Unlock), 298/300 (the call of the
\* function field).
ProgramReadBeforeLock ==
    << "check", "read", "lock", "write", "unlock", "call" >>
ProgramLockBeforeCheck ==
    << "lock", "check", "read", "write", "unlock", "call" >>
ProgramUnlockAfterCall ==
    << "check", "lock", "read", "write", "call", "unlock" >>
Program == << "check", "lock", "read", "write", "unlock", "call" >>

\* The statement after the one at position i of Program.
StepAt(i) == IF i > Len(Program) THEN "done" ELSE Program[i]
StepAfter(pc) ==
    StepAt(1 + CHOOSE i \in 1..Len(Program) : Program[i] = pc)

\* line 269: every method has a mutex of its own, lock<Method>.
GuardOf(meth) == meth

Depth(g) == Len(stack[g])
Top(g) == stack[g][Depth(g)]
At(g, pc) == status[g] = "running" /\ Depth(g) > 0 /\ Top(g).pc = pc

\* The top frame of g goes on to the statement after pc, or returns.
advance(g, pc) ==
    IF StepAfter(pc) = "done"
    THEN stack' = [stack EXCEPT ![g] = SubSeq(@, 1, Len(@) - 1)]
    ELSE stack' = [stack EXCEPT ![g][Depth(g)].pc = StepAfter(pc)]

\* A call of method meth enters: a new frame on the stack of g.
enter(g, meth) ==
    /\ issued < MaxCalls
    /\ issued' = issued + 1
    /\ stack' = [stack EXCEPT
                    ![g] = Append(@, Frame(meth, issued + 1, StepAt(1)))]
    /\ UNCHANGED <<funcSet, lock, log, status, acquired, appended, genVars>>

\* The test calls a method of the mock.
Invoke(g) ==
    /\ status[g] = "running"
    /\ Depth(g) = 0
    /\ \E meth \in MockMethods : enter(g, meth)

\* lines 283-285: panic when the function field is nil.  The panic unwinds
\* the stack of the goroutine; nothing in the generated code recovers or
\* defers.
NilCheck(g) ==
    /\ At(g, "check")
    /\ IF funcSet[Top(g).meth]
       THEN advance(g, "check") /\ UNCHANGED status
       ELSE /\ status' = [status EXCEPT ![g] = "panicked"]
            /\ stack' = [stack EXCEPT ![g] = << >>]
    /\ UNCHANGED <<funcSet, lock, log, issued, acquired, appended, genVars>>

\* line 286: mock.CallsTo.lock<Method>.Lock()
Lock(g) ==
    /\ At(g, "lock")
    /\ lock[GuardOf(Top(g).meth)] = NoFrame
    /\ lock' = [lock EXCEPT ![GuardOf(Top(g).meth)] = <<g, Depth(g)>>]
    /\ acquired' = [acquired EXCEPT ![Top(g).meth] = Append(@, Top(g).arg)]
    /\ advance(g, "lock")
    /\ UNCHANGED <<funcSet, log, status, issued, appended, genVars>>

\* line 287, the operand of append: the slice as it is now
ReadLog(g) ==
    /\ At(g, "read")
    /\ stack' = [stack EXCEPT ![g][Depth(g)] =
                    [@ EXCEPT !.seen = log[Top(g).meth],
                               !.pc = StepAfter("read")]]
    /\ UNCHANGED <<funcSet, lock, log, status, issued, acquired, appended,
                   genVars>>

\* line 287, the assignment: the slice read, with the entry of this call
WriteLog(g) ==
    /\ At(g, "write")
    /\ log' = [log EXCEPT ![Top(g).meth] = Append(Top(g).seen, Top(g).arg)]
    /\ appended' = [appended EXCEPT ![Top(g).meth] = @ + 1]
    /\ advance(g, "write")
    /\ UNCHANGED <<funcSet, lock, status, issued, acquired, genVars>>

\* line 296: mock.CallsTo.lock<Method>.Unlock()
Unlock(g) ==
    /\ At(g, "unlock")
    /\ lock' = [lock EXCEPT ![GuardOf(Top(g).meth)] = NoFrame]
    /\ advance(g, "unlock")
    /\ UNCHANGED <<funcSet, log, status, issued, acquired, appended, genVars>>

\* lines 298/300: the function field starts to run
CallFunc(g) ==
    /\ At(g, "call")
    /\ stack' = [stack EXCEPT ![g][Depth(g)].pc = "infunc"]
    /\ UNCHANGED <<funcSet, lock, log, status, issued, acquired, appended,
                   genVars>>

\* The function field calls a method of the mock.
Reenter(g) ==
    /\ At(g, "infunc")
    /\ Depth(g) < MaxDepth
    /\ \E meth \in MockMethods : enter(g, meth)

\* The function field returns, and so the call of it.
Return(g) ==
    /\ At(g, "infunc")
    /\ advance(g, "call")
    /\ UNCHANGED <<funcSet, lock, log, status, issued, acquired, appended,
                   genVars>>

GenIdle ==
    /\ tree = {} /\ pkgHint = "" /\ request = << >> /\ mocker = << >>
    /\ calls = << >> /\ names = << >> /\ sink = << >> /\ doc = << >>
    /\ err = << >>

\* A mock as the test made it: any of the function fields set, no call yet.
MockInit ==
    /\ GenIdle
    /\ funcSet \in [MockMethods -> BOOLEAN]
    /\ lock = [m \in MockMethods |-> NoFrame]
    /\ log = [m \in MockMethods |-> << >>]
    /\ stack = [g \in Goroutines |-> << >>]
    /\ status = [g \in Goroutines |-> "running"]
    /\ issued = 0
    /\ acquired = [m \in MockMethods |-> << >>]
    /\ appended = [m \in MockMethods |-> 0]

MockNext ==
    \E g \in Goroutines :
        \/ Invoke(g)
        \/ NilCheck(g)
        \/ Lock(g)
        \/ ReadLog(g)
        \/ WriteLog(g)
        \/ Unlock(g)
        \/ CallFunc(g)
        \/ Reenter(g)
        \/ Return(g)

SpecMock == MockInit /\ [][MockNext]_vars

(***************************************************************************)
(* Part II, the claims about the generated mock.                           *)
(***************************************************************************)
\* The frames of all goroutines, as <<goroutine, depth>>.
Frames == { <<g, d>> : g \in Goroutines, d \in 1..MaxDepth }
Live(f) == f[2] <= Depth(f[1])
FrameOf(f) == stack[f[1]][f[2]]

\* C2 (call-log correctness): for a method whose function field is set,
\* when N calls have passed the append the log has N entries, and they are
\* the arguments of the first N calls that acquired the guard of the
\* method, in the order in which they acquired it.
C2_LogIsAcquisitionOrder ==
    \A m \in MockMethods :
        funcSet[m] =>
            /\ Len(log[m]) = appended[m]
            /\ appended[m] <= Len(acquired[m])
            /\ log[m] = SubSeq(acquired[m], 1, appended[m])

\* Two calls of one method have passed the append, and the later call (the
\* higher argument) acquired the guard first.
C2_Witness ==
    \E m \in MockMethods :
        funcSet[m] /\ appended[m] = 2 /\ log[m][1] > log[m][2]

\* C3 (misuse fatality): a call of a method whose function field is nil
\* goes no further than the nil check, where it panics: the log of the
\* method stays empty, its guard is never taken, and a goroutine that
\* panicked holds no guard.
C3_NilFuncPanicsFirst ==
    /\ \A m \in MockMethods :
           ~funcSet[m] =>
               /\ log[m] = << >>
               /\ appended[m] = 0
               /\ acquired[m] = << >>
               /\ lock[m] = NoFrame
               /\ \A f \in Frames :
                      Live(f) /\ FrameOf(f).meth = m =>
                          FrameOf(f).pc = "check"
    /\ \A g \in Goroutines :
           status[g] = "panicked" =>
               \A m \in MockMethods : lock[m][1] # g

\* A goroutine has panicked at the nil check of a method whose function
\* field is nil, after a call of the other method was logged.
C3_Witness ==
    \E g \in Goroutines, m, n \in MockMethods :
        /\ status[g] = "panicked"
        /\ Depth(g) = 0
        /\ ~funcSet[n]
        /\ funcSet[m]
        /\ Len(log[m]) > 0

\* The goroutine g waits for the guard of the method it called.
Blocked(g) ==
    At(g, "lock") /\ lock[GuardOf(Top(g).meth)] # NoFrame

\* Frame f is in the append step of method m: between Lock and Unlock.
InAppend(f, m) ==
    /\ Live(f)
    /\ f[2] = Depth(f[1])
    /\ status[f[1]] = "running"
    /\ FrameOf(f).meth = m
    /\ FrameOf(f).pc \in {"read", "write", "unlock"}

\* C9 (guard scope): a guard is held only by a call that is in the append
\* step of the method of that guard, never by one whose function field is
\* running; a call that waits for a guard waits for a call in the append
\* step of the same method, which can take its next step.
C9_GuardOnlyAroundAppend ==
    /\ \A m \in MockMethods :
           lock[m] # NoFrame => InAppend(lock[m], m)
    /\ \A f \in Frames :
           Live(f) /\ FrameOf(f).pc = "infunc" =>
               \A m \in MockMethods : lock[m] # f
    /\ \A g \in Goroutines :
           Blocked(g) =>
               InAppend(lock[GuardOf(Top(g).meth)], Top(g).meth)

\* The function field of a method is running and has called the same
\* method again; the nested call holds the guard and has appended.
C9_Witness ==
    \E g \in Goroutines :
        /\ Depth(g) = 2
        /\ stack[g][1].pc = "infunc"
        /\ stack[g][2].meth = stack[g][1].meth
        /\ stack[g][2].pc = "unlock"
        /\ lock[stack[g][2].meth] = <<g, 2>>
        /\ \E h \in Goroutines : Blocked(h)
====
